---- MODULE Spec2Model ----
(***************************************************************************)
(* A model of shush-rs (src/src/lib.rs): SecretBox<S>, a heap box whose    *)
(* pages are mlock'ed (and MADV_DONTDUMP'ed on Linux) at construction and  *)
(* munlock'ed, MADV_DODUMP'ed and zeroized at drop, and the two guards     *)
(* SecretGuard / SecretGuardMut handed out by ExposeSecret.                *)
(*                                                                         *)
(* The caller is one thread: an operation (a constructor, a drop) runs to  *)
(* completion before the next one starts; `cur` is that thread's position  *)
(* inside the operation, one step per platform call, so that the states    *)
(* between two platform calls are states of the model.  The platform is   *)
(* Linux (cfg(unix), target_os = "linux").  Memory is scaled               *)
(* down: addresses are small naturals, a page is 2 or 4 bytes, a machine   *)
(* word has WordBits bits.                                                 *)
(***************************************************************************)
EXTENDS Integers, Sequences, FiniteSets, Bags, TLC

\* ---------------------------------------------------------------- bounds
\* highest heap address a Box allocation may start at
MaxAddr == 2
\* largest size_of_val(&S) in bytes
MaxLen == 2
\* secret values are 0..MaxSecret; 0 is the zeroized (and the default) value
MaxSecret == 1
\* guards alive at once
MaxGuards == 2
\* width of usize in bits
WordBits == 7
\* inputs of the alignment arithmetic checked on its own (SpecAlign)
MaxAlignAddr == 24
MaxAlignLen == 13

\* page sizes sysconf(_SC_PAGESIZE) may report (powers of two)
PageSizes == {2, 4}
\* page sizes tried on the alignment arithmetic alone
AlignPageSizes == {1, 2, 4, 8}

\* the container slots: two containers are built in one run, the least number
\* whose regions can share a page
Boxes == {1, 2}
Addrs == 1..MaxAddr
Lens == 1..MaxLen
Secrets == 0..MaxSecret
Errors == {"e1", "e2"}

\* -------------------------------------------------- usize arithmetic
WordMod == 2 ^ WordBits

WrapAdd(x, y) == (x + y) % WordMod

WrapSub(x, y) == (x - y + WordMod) % WordMod

\* !x on usize
BitNot(x) == (WordMod - 1) - x

RECURSIVE BitAnd(_, _)
\* x & y on usize
BitAnd(x, y) ==
  IF x = 0 \/ y = 0 THEN 0
  ELSE (x % 2) * (y % 2) + 2 * BitAnd(x \div 2, y \div 2)

\* ------------------------------------------ page alignment, as in new()
NewStart(ptr, ps) == BitAnd(ptr, BitNot(WrapSub(ps, 1)))

\* a faulty end: ptr + len rounded down, the `+ page_size - 1` forgotten
NewEndNoRoundUp(ptr, len, ps) == BitAnd(WrapAdd(ptr, len), BitNot(WrapSub(ps, 1)))

NewEnd(ptr, len, ps) ==
  BitAnd(WrapSub(WrapAdd(WrapAdd(ptr, len), ps), 1), BitNot(WrapSub(ps, 1)))

NewAlignedLen(ptr, len, ps) == WrapSub(NewEnd(ptr, len, ps), NewStart(ptr, ps))

\* ----------------------------------------- page alignment, as in drop()
\* a faulty start: the secret's own address, not rounded down to its page
DropStartUnaligned(ptr, ps) == ptr

DropStart(ptr, ps) == BitAnd(ptr, BitNot(WrapSub(ps, 1)))

DropEnd(ptr, len, ps) ==
  BitAnd(WrapSub(WrapAdd(WrapAdd(ptr, len), ps), 1), BitNot(WrapSub(ps, 1)))

DropAlignedLen(ptr, len, ps) == WrapSub(DropEnd(ptr, len, ps), DropStart(ptr, ps))

\* ----------------------------------------------------- the secret type S
\* S::zeroize: the whole value becomes the zero value
SZeroize(v) == 0

\* S::default()
SDefault == 0

\* S::clone: a deep copy, equal to the original
SClone(v) == v

\* ------------------------------------------------------------- the state
VARIABLES
  pageSize,   \* what sysconf(_SC_PAGESIZE) reports
  boxes,      \* slot -> the SecretBox built in it and its heap allocation
  guards,     \* the bag of SecretGuard / SecretGuardMut values alive
  locked,     \* platform: base addresses of the pages locked in memory
  nodump,     \* platform: base addresses of the pages marked MADV_DONTDUMP
  prot,       \* platform: address -> protection of its page
  cur,        \* the caller's position inside the operation in progress
  panicked,   \* a panic was raised: the thread is unwinding
  aln         \* the alignment arithmetic taken alone (SpecAlign)

vars == <<pageSize, boxes, guards, locked, nodump, prot, cur, panicked, aln>>

MaxPageSize == CHOOSE p \in PageSizes : \A q \in PageSizes : q <= p

\* every address of the modelled memory
Mem == 0..(MaxAddr + MaxLen + MaxPageSize)

PageBases(ps) == {q \in Mem : q % ps = 0}

\* the pages a platform call on (addr, len) acts on: those meeting [addr, addr+len)
KernelPages(addr, len, ps) ==
  {q \in PageBases(ps) : q < addr + len /\ q + ps > addr}

NoData == -1

FreeBox ==
  [st |-> "free", addr |-> 0, len |-> 0, val |-> 0, written |-> 0, wrote |-> FALSE,
   wipes |-> 0, creg |-> <<0, 0>>]

Idle ==
  [op |-> "idle", step |-> "-", b |-> 0, arg |-> 0, data |-> NoData,
   res |-> "-", ein |-> "-", err |-> "-", calls |-> 0, locked0 |-> {}, nodump0 |-> {},
   dreg |-> <<0, 0>>, out |-> <<>>]

AlnIdle ==
  [a |-> 0, n |-> 1, p |-> 1, at |-> "-", start |-> 0, end |-> 0, alen |-> 0,
   dstart |-> 0, dend |-> 0, dalen |-> 0]

\* a slot whose heap allocation exists (leaked ones stay allocated for ever)
Allocated(b) == boxes[b].st \in {"raw", "built", "live", "dropping", "leaked"}

\* a faulty allocator: it hands out bytes of a live allocation again
CanAllocOverlapping(a, n) == a + n - 1 <= MaxAddr + MaxLen - 1

\* the allocator hands out [a, a+n) only if it meets no live allocation
CanAlloc(a, n) ==
  /\ a + n - 1 <= MaxAddr + MaxLen - 1
  /\ \A b \in Boxes :
       Allocated(b) => (a + n <= boxes[b].addr \/ boxes[b].addr + boxes[b].len <= a)

HasFreeSlot == \E b \in Boxes : boxes[b].st = "free"

NextSlot == CHOOSE b \in Boxes :
  boxes[b].st = "free" /\ \A c \in Boxes : boxes[c].st = "free" => b <= c

\* the pages that hold the bytes of slot b's secret
BoxPages(b) == KernelPages(boxes[b].addr, boxes[b].len, pageSize)

Guard(kind, tgt, via) == [kind |-> kind, tgt |-> tgt, via |-> via]

\* how many guards like g are alive
Alive(g) == IF BagIn(g, guards) THEN CopiesIn(g, guards) ELSE 0

\* guards minted by expose_secret / expose_secret_mut of container b
MintedOn(b) == Alive(Guard("ro", b, "expose")) + Alive(Guard("rw", b, "expose"))

\* guards built by SecretGuard::new(&*g) on the secret of container b
RebuiltOn(b) == Alive(Guard("ro", b, "new"))

\* every guard that derefs to the secret of container b
GuardsOn(b) == MintedOn(b) + RebuiltOn(b)

\* a faulty receiver: `&self` where the code has `&mut self`, never refused
BorrowFreeUnchecked(b) == TRUE

\* `&mut self` / `&self` of a container can be taken: nothing borrows it
BorrowFree(b) == GuardsOn(b) = 0

\* a faulty heap: its pages start with no access allowed
HeapProtNone == "none"

\* the protection of the heap pages a Box is allocated in: readable and
\* writable; no call of the library ever changes it
HeapProt == "rw"

Init ==
  /\ pageSize \in PageSizes
  /\ boxes = [b \in Boxes |-> FreeBox]
  /\ guards = EmptyBag
  /\ locked = {}
  /\ nodump = {}
  /\ prot = [a \in Mem |-> HeapProt]
  /\ cur = Idle
  /\ panicked = FALSE
  /\ aln = AlnIdle

CanStart == cur.op = "idle" /\ ~panicked

\* enter SecretBox::new with a Box at address a holding v (n bytes):
\* size_of_val, Box::into_raw, sysconf(_SC_PAGESIZE).  When sysconf fails new()
\* panics: the Box, already a raw pointer, is never rebuilt, so its allocation
\* stays as it is, and the thread unwinds.
EnterNew(op, a, n, v, arg, data) ==
  /\ CanStart
  /\ HasFreeSlot
  /\ CanAlloc(a, n)
  /\ \E ok \in BOOLEAN :
       /\ boxes' = [boxes EXCEPT ![NextSlot] =
            [FreeBox EXCEPT !.st = IF ok THEN "raw" ELSE "leaked",
                            !.addr = a, !.len = n, !.val = v, !.written = v]]
       /\ cur' = IF ok
                 THEN [Idle EXCEPT !.op = op, !.step = "madvise", !.b = NextSlot,
                                   !.arg = arg, !.data = data, !.calls = 1,
                                   !.locked0 = locked, !.nodump0 = nodump]
                 ELSE Idle
       /\ panicked' = ~ok
  /\ UNCHANGED <<pageSize, guards, locked, nodump, prot, aln>>

\* SecretBox::new(boxed_secret)
New == \E a \in Addrs, n \in Lens, v \in Secrets : EnterNew("new", a, n, v, v, NoData)

\* SecretBox::default(): Box::<S>::default(), then new
Default == \E a \in Addrs, n \in Lens : EnterNew("default", a, n, SDefault, SDefault, NoData)

\* SecretBox::new_with_mut(ctr): default() first; ctr will store v
NewWithMut ==
  \E a \in Addrs, n \in Lens, v \in Secrets :
    EnterNew("new_with_mut", a, n, SDefault, v, NoData)

\* a faulty order: the clone taken after data.zeroize()
CtrBoxedAfterWipe(data) == SClone(SZeroize(data))

\* what new_with_ctr boxes: Box::new(data.clone())
CtrBoxed(data) == SClone(data)

\* SecretBox::new_with_ctr(ctr): data = ctr() = v; new(Box::new(data.clone()))
NewWithCtr ==
  \E a \in Addrs, n \in Lens, v \in Secrets :
    EnterNew("new_with_ctr", a, n, CtrBoxed(v), v, v)

\* a faulty `?`: the error replaced by a fixed one
QuestionMarkErrLost(e) == "e1"

\* the `?` of try_new_with_ctr on Err(e): From<E> for E
QuestionMarkErr(e) == e

\* SecretBox::try_new_with_ctr(ctr) where ctr() = Ok(v)
TryNewWithCtrOk ==
  \E a \in Addrs, n \in Lens, v \in Secrets :
    EnterNew("try_new_with_ctr", a, n, CtrBoxed(v), v, v)

\* SecretBox::try_new_with_ctr(ctr) where ctr() = Err(e): `?` returns at once
TryNewWithCtrErr ==
  \E e \in Errors :
    /\ CanStart
    /\ cur' = [Idle EXCEPT !.op = "try_new_with_ctr", !.step = "ret", !.ein = e,
                           !.res = "err", !.err = QuestionMarkErr(e),
                           !.locked0 = locked, !.nodump0 = nodump]
    /\ UNCHANGED <<pageSize, boxes, guards, locked, nodump, prot, panicked, aln>>

\* SecretBox::clone(&self): new(self.inner_secret.clone()); cur.arg is the
\* slot cloned from
Clone ==
  \E src \in Boxes, a \in Addrs :
    /\ boxes[src].st = "live"
    /\ BorrowFree(src)
    /\ EnterNew("clone", a, boxes[src].len, SClone(boxes[src].val), src, NoData)

\* ------------------------------------------------ platform calls' effects
\* mlock: locks are per page and do not stack
Mlock(lk, start, alen, ps) == lk \cup KernelPages(start, alen, ps)

\* munlock: one call unlocks the pages, whoever locked them
Munlock(lk, start, alen, ps) == lk \ KernelPages(start, alen, ps)

\* madvise(MADV_DONTDUMP) / madvise(MADV_DODUMP): a per-page flag
MadviseDontDump(nd, start, alen, ps) == nd \cup KernelPages(start, alen, ps)

MadviseDoDump(nd, start, alen, ps) == nd \ KernelPages(start, alen, ps)

\* --------------------------------------------------- SecretBox::new, steps
InNew(step) ==
  /\ cur.op \in {"new", "default", "new_with_mut", "new_with_ctr", "try_new_with_ctr", "clone"}
  /\ cur.step = step

\* the step after new() has returned the SecretBox to the constructor that called it
AfterNew(op) ==
  CASE op = "new_with_mut" -> "expose"
    [] op \in {"new_with_ctr", "try_new_with_ctr"} -> "wipe_local"
    [] OTHER -> "ret"

\* a faulty new(): the failure of a platform call is passed over and the Box
\* is rebuilt and returned all the same
NewFailureIgnored ==
  /\ boxes' = [boxes EXCEPT ![cur.b].st = "built"]
  /\ cur' = [cur EXCEPT !.step = AfterNew(cur.op),
                        !.res = IF AfterNew(cur.op) = "ret" THEN "ok" ELSE @]
  /\ panicked' = panicked

\* a panic inside new(): the Box was turned into a raw pointer and is never
\* rebuilt, so its allocation stays as it is; the thread unwinds
NewPanic ==
  /\ boxes' = [boxes EXCEPT ![cur.b].st = "leaked"]
  /\ cur' = Idle
  /\ panicked' = TRUE

\* madvise(start, aligned_len, MADV_DONTDUMP)
NewMadvise ==
  /\ InNew("madvise")
  /\ \E ok \in BOOLEAN :
       IF ok
       THEN /\ nodump' = MadviseDontDump(nodump,
                           NewStart(boxes[cur.b].addr, pageSize),
                           NewAlignedLen(boxes[cur.b].addr, boxes[cur.b].len, pageSize),
                           pageSize)
            /\ cur' = [cur EXCEPT !.step = "mlock", !.calls = @ + 1]
            /\ UNCHANGED <<boxes, panicked>>
       ELSE /\ NewPanic
            /\ UNCHANGED nodump
  /\ UNCHANGED <<pageSize, guards, locked, prot, aln>>

\* mlock(start, aligned_len), then Box::from_raw and Self { inner_secret }
NewMlock ==
  /\ InNew("mlock")
  /\ \E ok \in BOOLEAN :
       IF ok
       THEN /\ locked' = Mlock(locked,
                           NewStart(boxes[cur.b].addr, pageSize),
                           NewAlignedLen(boxes[cur.b].addr, boxes[cur.b].len, pageSize),
                           pageSize)
            /\ boxes' = [boxes EXCEPT ![cur.b].st = "built",
                           ![cur.b].creg =
                              <<NewStart(boxes[cur.b].addr, pageSize),
                                NewAlignedLen(boxes[cur.b].addr, boxes[cur.b].len, pageSize)>>]
            /\ cur' = [cur EXCEPT !.step = AfterNew(cur.op), !.calls = @ + 1,
                                  !.res = IF AfterNew(cur.op) = "ret" THEN "ok" ELSE @]
            /\ UNCHANGED panicked
       ELSE /\ NewPanic
            /\ UNCHANGED locked
  /\ UNCHANGED <<pageSize, guards, nodump, prot, aln>>

\* data.zeroize() of new_with_ctr / try_new_with_ctr
CtrWipeLocal ==
  /\ InNew("wipe_local")
  /\ cur' = [cur EXCEPT !.data = SZeroize(@), !.step = "ret", !.res = "ok"]
  /\ UNCHANGED <<pageSize, boxes, guards, locked, nodump, prot, panicked, aln>>

\* a faulty guard: the assignment lands in a copy, the box keeps its value
GuardMutAssignLost(old, v) == old

\* `*guard = v` through DerefMut of a SecretGuardMut
GuardMutAssign(old, v) == v

\* new_with_mut: secret.expose_secret_mut()
MutExpose ==
  /\ InNew("expose")
  /\ guards' = guards (+) SetToBag({Guard("rw", cur.b, "expose")})
  /\ cur' = [cur EXCEPT !.step = "ctr"]
  /\ UNCHANGED <<pageSize, boxes, locked, nodump, prot, panicked, aln>>

\* new_with_mut: ctr(&mut *guard), the initializer stores its value
MutCtr ==
  /\ InNew("ctr")
  /\ boxes' = [boxes EXCEPT ![cur.b].val = GuardMutAssign(@, cur.arg),
                            ![cur.b].written = cur.arg, ![cur.b].wrote = TRUE]
  /\ cur' = [cur EXCEPT !.step = "release"]
  /\ UNCHANGED <<pageSize, guards, locked, nodump, prot, panicked, aln>>

\* the guards left when guard g is dropped; neither guard type has a Drop impl
RemoveGuard(g) == guards (-) SetToBag({g})

\* new_with_mut: the temporary guard is dropped at the end of the statement
MutRelease ==
  /\ InNew("release")
  /\ BagIn(Guard("rw", cur.b, "expose"), guards)
  /\ guards' = RemoveGuard(Guard("rw", cur.b, "expose"))
  /\ cur' = [cur EXCEPT !.step = "ret", !.res = "ok"]
  /\ UNCHANGED <<pageSize, boxes, locked, nodump, prot, panicked, aln>>

\* the constructor returns its SecretBox (or the Err) to the caller
Return ==
  /\ InNew("ret")
  /\ boxes' = IF cur.b = 0 THEN boxes ELSE [boxes EXCEPT ![cur.b].st = "live"]
  /\ cur' = Idle
  /\ UNCHANGED <<pageSize, guards, locked, nodump, prot, panicked, aln>>

\* ------------------------------------------------------------- guards
\* expose_secret(&mut self): SecretGuard::new(&self.inner_secret)
ExposeSecret ==
  \E b \in Boxes :
    /\ CanStart
    /\ boxes[b].st = "live"
    /\ BorrowFree(b)
    /\ BagCardinality(guards) < MaxGuards
    /\ guards' = guards (+) SetToBag({Guard("ro", b, "expose")})
    /\ UNCHANGED <<pageSize, boxes, locked, nodump, prot, cur, panicked, aln>>

\* expose_secret_mut(&mut self): SecretGuardMut::new(&mut self.inner_secret)
ExposeSecretMut ==
  \E b \in Boxes :
    /\ CanStart
    /\ boxes[b].st = "live"
    /\ BorrowFree(b)
    /\ BagCardinality(guards) < MaxGuards
    /\ guards' = guards (+) SetToBag({Guard("rw", b, "expose")})
    /\ UNCHANGED <<pageSize, boxes, locked, nodump, prot, cur, panicked, aln>>

\* the public SecretGuard::new(&x) / SecretGuardMut::new(&mut x) called by any
\* code: on x, a value outside every container (tgt 0; a `&mut x` excludes
\* every other borrow of x), or SecretGuard::new(&*g) on the secret an
\* outstanding guard g of container tgt derefs to
GuardNew ==
  \E kind \in {"ro", "rw"}, tgt \in {0} \cup Boxes :
    /\ CanStart
    /\ BagCardinality(guards) < MaxGuards
    /\ tgt # 0 => (kind = "ro" /\ MintedOn(tgt) > 0)
    /\ tgt = 0 => /\ Alive(Guard("rw", 0, "new")) = 0
                  /\ kind = "rw" => Alive(Guard("ro", 0, "new")) = 0
    /\ guards' = guards (+) SetToBag({Guard(kind, tgt, "new")})
    /\ UNCHANGED <<pageSize, boxes, locked, nodump, prot, cur, panicked, aln>>

\* `*guard = v` on a SecretGuardMut minted by expose_secret_mut
GuardWrite ==
  \E b \in Boxes, v \in Secrets :
    /\ CanStart
    /\ BagIn(Guard("rw", b, "expose"), guards)
    /\ RebuiltOn(b) = 0
    /\ boxes' = [boxes EXCEPT ![b].val = GuardMutAssign(@, v), ![b].written = v,
                              ![b].wrote = TRUE]
    /\ UNCHANGED <<pageSize, guards, locked, nodump, prot, cur, panicked, aln>>

\* a guard goes out of scope or is dropped (also while unwinding): no Drop
\* impl, so nothing but the borrow ends; a guard that others were reborrowed
\* from outlives them
GuardRelease ==
  \E g \in BagToSet(guards) :
    /\ cur.op = "idle"
    /\ (g.via = "expose" => RebuiltOn(g.tgt) = 0)
    /\ guards' = RemoveGuard(g)
    /\ UNCHANGED <<pageSize, boxes, locked, nodump, prot, cur, panicked, aln>>

\* Zeroize for SecretBox: secret_box.zeroize() called by the owner
BoxZeroize ==
  \E b \in Boxes :
    /\ CanStart
    /\ boxes[b].st = "live"
    /\ BorrowFree(b)
    /\ boxes' = [boxes EXCEPT ![b].val = SZeroize(@), ![b].written = SZeroize(boxes[b].val),
                              ![b].wrote = FALSE]
    /\ UNCHANGED <<pageSize, guards, locked, nodump, prot, cur, panicked, aln>>

\* ------------------------------------------------------ Debug for SecretBox
\* any::type_name::<S>() of the secret type of the containers
TypeName == "S"

\* a faulty fmt: the value is formatted, as a derived Debug would
DebugFmtDerived(self) == <<"SecretBox<", TypeName, ">(", ToString(self.val), ")">>

\* write!(f, "SecretBox<{}>([REDACTED])", any::type_name::<S>()): the pieces
\* written to the formatter
DebugFmt(self) == <<"SecretBox<", TypeName, ">(", "[REDACTED]", ")">>

\* format!("{:?}", secret_box): fmt(&self, f) on a held container
Fmt ==
  \E b \in Boxes :
    /\ CanStart
    /\ boxes[b].st = "live"
    /\ BorrowFree(b)
    /\ cur' = [Idle EXCEPT !.op = "fmt", !.step = "ret", !.b = b, !.res = "ok",
                           !.out = DebugFmt(boxes[b])]
    /\ UNCHANGED <<pageSize, boxes, guards, locked, nodump, prot, panicked, aln>>

\* the formatted text is handed to the caller
FmtReturn ==
  /\ cur.op = "fmt"
  /\ cur' = Idle
  /\ UNCHANGED <<pageSize, boxes, guards, locked, nodump, prot, panicked, aln>>

\* ------------------------------------------------- Drop for SecretBox, steps
InDrop(step) == cur.op = "drop" /\ cur.step = step

\* a panic inside drop(): self.zeroize() is not reached; the drop glue still
\* frees inner_secret.  A panic while already unwinding aborts the process.
DropPanicOf(b) ==
  /\ boxes' = [boxes EXCEPT ![b].st = "freed_unwiped", ![b].addr = 0,
                            ![b].len = 0, ![b].creg = <<0, 0>>,
                            ![b].written = 0, ![b].wrote = FALSE]
  /\ cur' = IF panicked THEN [Idle EXCEPT !.op = "aborted"] ELSE Idle
  /\ panicked' = TRUE

DropPanic == DropPanicOf(cur.b)

\* the owner's scope ends (or the thread unwinds through it): drop(&mut self)
\* starts with size_of_val, sysconf(_SC_PAGESIZE) and the alignment of
\* (secret_ptr, len); when sysconf fails drop() panics at once
DropSysconf ==
  \E b \in Boxes, ok \in BOOLEAN :
    /\ cur.op = "idle"
    /\ boxes[b].st = "live"
    /\ BorrowFree(b)
    /\ IF ok
       THEN /\ boxes' = [boxes EXCEPT ![b].st = "dropping"]
            /\ cur' = [Idle EXCEPT !.op = "drop", !.step = "madvise", !.b = b, !.calls = 1,
                         !.locked0 = locked, !.nodump0 = nodump,
                         !.dreg = <<DropStart(boxes[b].addr, pageSize),
                                    DropAlignedLen(boxes[b].addr, boxes[b].len, pageSize)>>]
            /\ UNCHANGED panicked
       ELSE DropPanicOf(b)
    /\ UNCHANGED <<pageSize, guards, locked, nodump, prot, aln>>

\* madvise(start, aligned_len, MADV_DODUMP)
DropMadvise ==
  /\ InDrop("madvise")
  /\ \E ok \in BOOLEAN :
       IF ok
       THEN /\ nodump' = MadviseDoDump(nodump, cur.dreg[1], cur.dreg[2], pageSize)
            /\ cur' = [cur EXCEPT !.step = "munlock", !.calls = @ + 1]
            /\ UNCHANGED <<boxes, panicked>>
       ELSE /\ DropPanic
            /\ UNCHANGED nodump
  /\ UNCHANGED <<pageSize, guards, locked, prot, aln>>

\* a faulty drop(): self.zeroize() left out
DropAfterMunlockNoWipe == "dealloc"

\* what drop() does once munlock has succeeded: self.zeroize()
DropAfterMunlock == "zeroize"

\* munlock(start, aligned_len)
DropMunlock ==
  /\ InDrop("munlock")
  /\ \E ok \in BOOLEAN :
       IF ok
       THEN /\ locked' = Munlock(locked, cur.dreg[1], cur.dreg[2], pageSize)
            /\ cur' = [cur EXCEPT !.step = DropAfterMunlock, !.calls = @ + 1]
            /\ UNCHANGED <<boxes, panicked>>
       ELSE /\ DropPanic
            /\ UNCHANGED locked
  /\ UNCHANGED <<pageSize, guards, nodump, prot, aln>>

\* self.zeroize(), the last statement of drop()
DropZeroize ==
  /\ InDrop("zeroize")
  /\ boxes' = [boxes EXCEPT ![cur.b].val = SZeroize(@),
                            ![cur.b].written = SZeroize(boxes[cur.b].val),
                            ![cur.b].wipes = @ + 1,
                            ![cur.b].wrote = FALSE]
  /\ cur' = [cur EXCEPT !.step = "dealloc"]
  /\ UNCHANGED <<pageSize, guards, locked, nodump, prot, panicked, aln>>

\* the drop glue drops inner_secret: the Box<S> is deallocated
DropDealloc ==
  /\ InDrop("dealloc")
  /\ boxes' = [boxes EXCEPT ![cur.b].st = "freed", ![cur.b].addr = 0,
                            ![cur.b].len = 0, ![cur.b].creg = <<0, 0>>,
                            ![cur.b].written = 0, ![cur.b].wrote = FALSE]
  /\ cur' = Idle
  /\ UNCHANGED <<pageSize, guards, locked, nodump, prot, panicked, aln>>

Next ==
  \/ New
  \/ Default
  \/ NewWithMut
  \/ NewWithCtr
  \/ TryNewWithCtrOk
  \/ TryNewWithCtrErr
  \/ Clone
  \/ NewMadvise
  \/ NewMlock
  \/ CtrWipeLocal
  \/ MutExpose
  \/ MutCtr
  \/ MutRelease
  \/ Return
  \/ ExposeSecret
  \/ ExposeSecretMut
  \/ GuardNew
  \/ GuardWrite
  \/ GuardRelease
  \/ BoxZeroize
  \/ Fmt
  \/ FmtReturn
  \/ DropSysconf
  \/ DropMadvise
  \/ DropMunlock
  \/ DropZeroize
  \/ DropDealloc

Spec == Init /\ [][Next]_vars

\* ------------------------------------ the alignment arithmetic on its own
\* (a, n): an allocation of n bytes at address a; p: the page size reported.
\* The inputs stay below the last page of the address space, where no heap
\* allocation lies, so a + n + p - 1 does not wrap.
AlignInputs ==
  [a : 0..MaxAlignAddr, n : 1..MaxAlignLen, p : AlignPageSizes, at : {"in"},
   start : {0}, end : {0}, alen : {0}, dstart : {0}, dend : {0}, dalen : {0}]

InitAlign ==
  /\ aln \in AlignInputs
  /\ pageSize = aln.p
  /\ boxes = [b \in Boxes |-> FreeBox]
  /\ guards = EmptyBag
  /\ locked = {}
  /\ nodump = {}
  /\ prot = [a \in Mem |-> HeapProt]
  /\ cur = Idle
  /\ panicked = FALSE

\* the arithmetic of SecretBox::new on (secret_ptr, len)
AlignAtNew ==
  /\ aln.at = "in"
  /\ aln' = [aln EXCEPT !.at = "new",
                        !.start = NewStart(aln.a, pageSize),
                        !.end = NewEnd(aln.a, aln.n, pageSize),
                        !.alen = NewAlignedLen(aln.a, aln.n, pageSize)]
  /\ UNCHANGED <<pageSize, boxes, guards, locked, nodump, prot, cur, panicked>>

\* the arithmetic of drop() on the same (secret_ptr, len)
AlignAtDrop ==
  /\ aln.at = "new"
  /\ aln' = [aln EXCEPT !.at = "drop",
                        !.dstart = DropStart(aln.a, pageSize),
                        !.dend = DropEnd(aln.a, aln.n, pageSize),
                        !.dalen = DropAlignedLen(aln.a, aln.n, pageSize)]
  /\ UNCHANGED <<pageSize, boxes, guards, locked, nodump, prot, cur, panicked>>

NextAlign ==
  \/ AlignAtNew
  \/ AlignAtDrop

SpecAlign == InitAlign /\ [][NextAlign]_vars

\* =================================================================== claims
\* a container its constructor has returned and whose drop has not begun
Held(b) == boxes[b].st = "live"

\* Deref of a guard on container b: the stored secret
GuardDeref(b) == boxes[b].val

\* C1. Default-deny: a held container with no guard outstanding has every
\* page of its region in protection mode NoAccess.
C1_DefaultDeny ==
  \A b \in Boxes :
    (Held(b) /\ GuardsOn(b) = 0) => \A q \in BoxPages(b) : prot[q] = "none"

\* C2. Protection state machine: while the guard of expose_secret is alive the
\* region is ReadOnly (never writable), while the guard of expose_secret_mut
\* is alive it is ReadWrite.
C2_ProtectionFollowsGuard ==
  \A b \in Boxes :
    /\ Alive(Guard("ro", b, "expose")) > 0 => \A q \in BoxPages(b) : prot[q] = "ro"
    /\ Alive(Guard("rw", b, "expose")) > 0 => \A q \in BoxPages(b) : prot[q] = "rw"

\* C3. Pinned invariant: every page of a held container's region is locked in
\* memory, whatever is done to the other containers.
C3_PinnedWhileHeld ==
  \A b \in Boxes : Held(b) => BoxPages(b) \subseteq locked

\* C4. Teardown ordering: once drop() has unpinned the region (munlock has
\* returned), the secret in it has already been wiped.
C4_WipedBeforeUnpinned ==
  \A b \in Boxes :
    (boxes[b].st = "dropping" /\ cur.b = b /\ cur.step \notin {"madvise", "munlock"})
      => boxes[b].val = SZeroize(boxes[b].val)

\* C5. Wipe-on-destroy: a drop whose platform calls all succeed wipes the whole
\* secret exactly once, and has done so when the allocation is freed.
C5_WipeOnDestroy ==
  \A b \in Boxes :
    /\ boxes[b].wipes <= 1
    /\ (boxes[b].st = "dropping" /\ cur.step = "dealloc")
         => (cur.calls = 3 /\ boxes[b].wipes = 1 /\ boxes[b].val = 0)
    /\ boxes[b].st = "freed" => (boxes[b].wipes = 1 /\ boxes[b].val = 0)
    /\ boxes[b].st \in {"raw", "built", "live", "leaked"} => boxes[b].wipes = 0

C5_Witness ==
  \E b \in Boxes : boxes[b].st = "freed" /\ boxes[b].wipes = 1 /\ boxes[b].val = 0

\* C6. Fallible construction: on Err(e), try_new_with_ctr returns Err(e) itself,
\* builds no container, issues no platform call, leaves the locked and the
\* dump-excluded pages as they were and holds no local secret; on Ok(v) it
\* returns a container holding v whose pages are locked.
C6_FallibleCtor ==
  (cur.op = "try_new_with_ctr" /\ cur.step = "ret") =>
    /\ cur.res = "err" =>
         /\ cur.err = cur.ein
         /\ cur.b = 0
         /\ \A b \in Boxes : boxes[b].st \notin {"raw", "built"}
         /\ cur.calls = 0
         /\ locked = cur.locked0
         /\ nodump = cur.nodump0
         /\ cur.data = NoData
    /\ cur.res = "ok" =>
         /\ cur.b \in Boxes
         /\ boxes[cur.b].st = "built"
         /\ GuardDeref(cur.b) = cur.arg
         /\ BoxPages(cur.b) \subseteq locked
    /\ cur.res \in {"ok", "err"}

C6_Witness ==
  /\ cur.op = "try_new_with_ctr"
  /\ cur.step = "ret"
  /\ cur.res = "err"
  /\ cur.ein = "e2"
  /\ locked # {}
  /\ \E b \in Boxes : Held(b)

\* C7 as stated. Single outstanding guard: at most one guard refers to a
\* container's secret, and every guard alive was minted by expose_secret or
\* expose_secret_mut.
C7_SoleFactory ==
  /\ \A b \in Boxes : GuardsOn(b) <= 1
  /\ \A g \in BagToSet(guards) : g.via = "expose"

\* C7 as amended. At most one guard minted by the container's expose_secret /
\* expose_secret_mut is alive per container, and any other guard on its secret
\* was built by SecretGuard::new from the minted one.
C7_OneMintedGuard ==
  \A b \in Boxes :
    /\ MintedOn(b) <= 1
    /\ RebuiltOn(b) > 0 => MintedOn(b) = 1

C7_Witness ==
  \E b \in Boxes : Held(b) /\ MintedOn(b) = 1 /\ RebuiltOn(b) = 1

\* C8. Round-trip: the value read through the guard of expose_secret is the one
\* last stored by the initializer of new_with_mut or by an assignment through
\* the guard of expose_secret_mut; releasing that guard changed nothing.
C8_RoundTrip ==
  \A b \in Boxes :
    (Alive(Guard("ro", b, "expose")) > 0 /\ boxes[b].wrote)
      => GuardDeref(b) = boxes[b].written

C8_Witness ==
  \E b \in Boxes :
    /\ Alive(Guard("ro", b, "expose")) > 0
    /\ boxes[b].wrote
    /\ boxes[b].written # 0
    /\ GuardDeref(b) = boxes[b].written

\* C9. Page alignment: the region new() and drop() compute for (a, n) under page
\* size p starts at floor(a/p)*p, ends at ceil((a+n)/p)*p, both multiples of p,
\* covers [a, a+n), is the smallest such range, and is the same both times.
C9_PageAlignment ==
  aln.at \in {"new", "drop"} =>
    /\ aln.start = (aln.a \div aln.p) * aln.p
    /\ aln.start <= aln.a
    /\ aln.end = ((aln.a + aln.n + aln.p - 1) \div aln.p) * aln.p
    /\ aln.end >= aln.a + aln.n
    /\ aln.start % aln.p = 0
    /\ aln.end % aln.p = 0
    /\ aln.alen = aln.end - aln.start
    /\ aln.start > aln.a - aln.p
    /\ aln.end < aln.a + aln.n + aln.p
    /\ aln.at = "drop" =>
         (aln.dstart = aln.start /\ aln.dend = aln.end /\ aln.dalen = aln.alen)

C9_Witness ==
  /\ aln.at = "drop"
  /\ aln.p = 4
  /\ aln.a % aln.p # 0
  /\ (aln.a + aln.n) % aln.p # 0
  /\ aln.alen >= 3 * aln.p
  /\ aln.dalen = aln.alen

\* C10. Constructor-function variant: when new_with_ctr returns, the container
\* holds the value v its function returned, its pages are locked and the local
\* original is wiped; the wipe of the original left the container's value alone.
C10_CtrVariant ==
  (cur.op = "new_with_ctr" /\ cur.step \in {"wipe_local", "ret"}) =>
    /\ boxes[cur.b].st = "built"
    /\ GuardDeref(cur.b) = cur.arg
    /\ BoxPages(cur.b) \subseteq locked
    /\ cur.step = "wipe_local" => cur.data = cur.arg
    /\ cur.step = "ret" => (cur.data = 0 /\ cur.res = "ok")

C10_Witness ==
  /\ cur.op = "new_with_ctr"
  /\ cur.step = "ret"
  /\ cur.arg # 0
  /\ GuardDeref(cur.b) = cur.arg
  /\ cur.data = 0

\* C11. Clone isolation: when clone returns, the new container is built on an
\* allocation disjoint from the original's, its pages were locked by its own
\* mlock call, and its guarded read equals the original's value; and no step
\* (a write through a guard, the initializer, an explicit wipe, the wipe of a
\* drop) changes the stored value of more than one allocated container.
C11_CloneIsolation ==
  [][ /\ (cur.op = "clone" /\ cur.step = "ret") =>
           /\ cur.b # cur.arg
           /\ boxes[cur.b].st = "built"
           /\ Held(cur.arg)
           /\ \/ boxes[cur.b].addr + boxes[cur.b].len <= boxes[cur.arg].addr
              \/ boxes[cur.arg].addr + boxes[cur.arg].len <= boxes[cur.b].addr
           /\ boxes[cur.b].len = boxes[cur.arg].len
           /\ GuardDeref(cur.b) = GuardDeref(cur.arg)
           /\ cur.calls = 3
           /\ BoxPages(cur.b) \subseteq locked
      /\ \A b \in Boxes, c \in Boxes :
           (b # c /\ Allocated(b) /\ Allocated(c) /\ boxes'[b].val # boxes[b].val)
             => boxes'[c].val = boxes[c].val
    ]_vars

C11_Witness ==
  /\ cur.op = "clone"
  /\ cur.step = "ret"
  /\ GuardDeref(cur.b) # 0
  /\ GuardDeref(cur.b) = GuardDeref(cur.arg)
  /\ boxes[cur.b].addr # boxes[cur.arg].addr
  /\ BoxPages(cur.b) \cap BoxPages(cur.arg) # {}

C13_ConstructionFailureFatal ==
  [][ \A b \in Boxes :
        /\ (boxes[b].st = "free" /\ boxes'[b].st # "free") =>
             \/ boxes'[b].st = "raw" /\ cur'.b = b /\ cur'.calls = 1 /\ ~panicked'
             \/ boxes'[b].st = "leaked" /\ panicked' /\ cur'.op = "idle"
        /\ (boxes[b].st = "raw" /\ boxes'[b].st # "raw") =>
             \/ /\ boxes'[b].st = "built"
                /\ cur.step = "mlock"
                /\ cur'.calls = 3
                /\ BoxPages(b) \subseteq locked'
                /\ ~panicked'
             \/ boxes'[b].st = "leaked" /\ panicked' /\ cur'.op = "idle"
        /\ boxes[b].st = "leaked" => boxes'[b].st = "leaked"
        /\ Held(b)' => boxes[b].st \in {"built", "live"}
        /\ boxes'[b].st = "built" => boxes[b].st \in {"raw", "built"}
    ]_vars

C13_Witness ==
  /\ panicked
  /\ cur.op = "idle"
  /\ \E b \in Boxes :
       /\ boxes[b].st = "leaked"
       /\ BoxPages(b) \subseteq nodump
       /\ BoxPages(b) \cap locked = {}
       /\ \A c \in Boxes \ {b} : boxes[c].st = "free"

\* C14. Teardown after partial construction failure: an allocation whose
\* construction failed part-way has its secret wiped and its dump exclusion
\* reversed (a page still excluded is one a held container lies on).
C14_TeardownAfterFailedNew ==
  \A b \in Boxes :
    boxes[b].st = "leaked" =>
      /\ boxes[b].val = SZeroize(boxes[b].val)
      /\ boxes[b].wipes = 1
      /\ \A q \in BoxPages(b) \cap nodump :
           \E c \in Boxes \ {b} : Held(c) /\ q \in BoxPages(c)

\* C15. Wipe is unconditional: every destroyed container, also one whose drop
\* ended in the panic of a failed platform call, had its secret wiped exactly
\* once before its allocation was freed.
C15_WipeUnconditional ==
  \A b \in Boxes :
    boxes[b].st \in {"freed", "freed_unwiped"} =>
      (boxes[b].wipes = 1 /\ boxes[b].val = SZeroize(boxes[b].val))

\* C16. Debug redaction: the Debug output of a container is the redaction
\* marker tagged with the secret's type name, whatever value it holds: the
\* text fmt has written shows no value, and any two held containers format to
\* the same text.
C16_DebugRedaction ==
  /\ cur.op = "fmt" =>
       /\ cur.out = <<"SecretBox<", TypeName, ">(", "[REDACTED]", ")">>
       /\ \A v \in Secrets : \A i \in 1..Len(cur.out) : cur.out[i] # ToString(v)
       /\ \A c \in Boxes : Held(c) => DebugFmt(boxes[c]) = cur.out
  /\ \A b \in Boxes, c \in Boxes :
       (Held(b) /\ Held(c)) => DebugFmt(boxes[b]) = DebugFmt(boxes[c])

C16_Witness ==
  /\ cur.op = "fmt"
  /\ GuardDeref(cur.b) # 0
  /\ \E c \in Boxes : Held(c) /\ GuardDeref(c) # GuardDeref(cur.b)

\* C17. In-place initializer ordering: in new_with_mut the region is locked and
\* dump-excluded before the initializer runs, the initializer runs once, on the
\* container's own allocation holding the default value, and when new_with_mut
\* returns no guard is outstanding and the region is NoAccess again.
C17_InitializerOrdering ==
  cur.op = "new_with_mut" =>
    /\ cur.step \in {"expose", "ctr", "release", "ret"} =>
         /\ boxes[cur.b].st = "built"
         /\ BoxPages(cur.b) \subseteq locked
         /\ BoxPages(cur.b) \subseteq nodump
    /\ cur.step \in {"expose", "ctr"} =>
         (GuardDeref(cur.b) = SDefault /\ ~boxes[cur.b].wrote)
    /\ cur.step \in {"release", "ret"} =>
         (GuardDeref(cur.b) = cur.arg /\ boxes[cur.b].wrote)
    /\ cur.step = "ret" =>
         /\ GuardsOn(cur.b) = 0
         /\ \A q \in BoxPages(cur.b) : prot[q] = "none"

\* C18. Dump exclusion lifetime: every page of a held container's region is
\* excluded from dumps, whatever was built or destroyed around it; and when no
\* container is left and no operation is running, no page is excluded from
\* dumps or locked.
C18_DumpExclusionLifetime ==
  /\ \A b \in Boxes : Held(b) => BoxPages(b) \subseteq nodump
  /\ ( /\ cur.op = "idle"
       /\ \A b \in Boxes : boxes[b].st \in {"free", "freed", "freed_unwiped", "leaked"} )
       => (nodump = {} /\ locked = {})

====
